---- MODULE Spec2Model ----
(***************************************************************************)
(* Model of src/main.py: the App Engine placeholder entry point.           *)
(*                                                                         *)
(*   5  from flask import Flask                                            *)
(*   6  app = Flask(__name__)                                              *)
(*   8  @app.route('/')                                                    *)
(*   9  def index():                                                       *)
(*  10      return "This route should not be reached - ..."                *)
(*  12  if __name__ == '__main__':                                         *)
(*  13      app.run(host='0.0.0.0', port=8080)                             *)
(*                                                                         *)
(* The module body is executed top to bottom (pc walks over its lines).    *)
(* Flask is an external library; the calls main.py makes into it are       *)
(* modelled by their documented behaviour:                                 *)
(*   - Flask(import_name) has static_folder='static' and                   *)
(*     static_url_path='/static' by default, and its constructor adds the  *)
(*     rule '/static/<path:filename>' (endpoint 'static');                 *)
(*   - route(rule) without methods= registers the rule for GET, to which   *)
(*     HEAD and OPTIONS are added automatically;                           *)
(*   - a request is matched on its path (the request target up to '?'):    *)
(*     no rule -> 404, rule but wrong method -> 405, OPTIONS -> automatic  *)
(*     options response, otherwise the view function is called; the body   *)
(*     of the response to a HEAD request is dropped;                       *)
(*   - run(host, port) binds the given host and port and serves until the  *)
(*     process is stopped; a failed bind ends the process.                 *)
(* Strings that the program takes apart (request targets, URL rules) are   *)
(* sequences of tokens, so that parsing and matching are computed.         *)
(* The environment is chosen in Init: how the module is loaded (__name__),  *)
(* the port the platform injects, whether the port to bind is free, and     *)
(* whether the static folder next to main.py holds the requested file.      *)
(* Request targets have no empty path segment ('//'), whose treatment       *)
(* differs between versions of the routing library.                         *)
(***************************************************************************)
EXTENDS Integers, Sequences, FiniteSets, TLC

\* Number of connections that can be in flight at the same time.
MaxConn == 2

VARIABLES
    name,           \* value of __name__: "__main__" (run directly) or "main" (imported)
    pc,             \* position in the module body / process state
    app,            \* the Flask object of line 6: [exists, url_map]
    listening,      \* TRUE iff a listener is bound and serving
    host,           \* interface the listener is bound to
    port,           \* port the listener is bound to (0: none)
    owner,          \* who bound the listener: "none", "app.run", "platform"
    envPort,        \* port injected by the platform (environment variable PORT)
    portFree,       \* TRUE iff the port a bind attempt asks for is free
    static_folder,  \* files present in the application's static folder
    conn,           \* connections: [st, req, resp] per connection slot
    log             \* entries written to the application log

vars == <<name, pc, app, listening, host, port, owner, envPort, portFree,
          static_folder, conn, log>>

Conns == 1 .. MaxConn

Ports == {8080, 9090}

Methods == {"GET", "HEAD", "OPTIONS", "POST"}

\* Request targets whose path is the root path: '/' and '/?q'.
RootTargets == { <<"/">>, <<"/", "?", "q">> }

\* Request targets: '/', '/?q', '/x', '/static/x'.
Targets == RootTargets \cup { <<"/", "x">>, <<"/", "static", "/", "x">> }

\* Headers and body of a request, as one opaque payload.
Payloads == {"", "d"}

\* The requests a client sends. Headers and body vary on the requests whose path
\* is the root path; the other requests carry none.
Requests ==
    {r \in [method : Methods, target : Targets, data : Payloads] :
        r.target \in RootTargets \/ r.data = ""}

NoReq == [method |-> "", target |-> <<>>, data |-> ""]

NoResp == [status |-> 0, body |-> "", allow |-> {}, view |-> ""]

Idle == [st |-> "idle", req |-> NoReq, resp |-> NoResp]

----------------------------------------------------------------------------
(* Line 10: the string index returns. *)
DiagnosticBody == "This route should not be reached - check app.yaml static handlers"

(* Lines 9-10: index(). A view function returns a value and may touch the   *)
(* application's globals; the record gives its return value and the log it *)
(* leaves behind. index only returns the string.                            *)
(* Faulty variants, against which the properties are tried: an index whose  *)
(* answer depends on the requests answered so far, one that writes to the   *)
(* log, and one that returns another string.                                *)
index_hitcount ==
    [rv |-> IF \E c \in Conns : conn[c].st = "responded"
            THEN "hits > 0" ELSE DiagnosticBody,
     found |-> TRUE, log |-> log]

index_logging == [rv |-> DiagnosticBody, found |-> TRUE, log |-> Append(log, "index called")]

index_other == [rv |-> "OK", found |-> TRUE, log |-> log]

index == [rv |-> DiagnosticBody, found |-> TRUE, log |-> log]

(* Flask.send_static_file, the view of the 'static' endpoint: the file's    *)
(* contents, or NotFound when the static folder holds no such file.        *)
send_static_file(filename) ==
    IF filename \in static_folder
    THEN [rv |-> "contents of the static file", found |-> TRUE, log |-> log]
    ELSE [rv |-> "", found |-> FALSE, log |-> log]

(* Line 6, Flask(__name__): the rule the constructor adds for static files. *)
StaticRule ==
    [rule |-> <<"/", "static", "/", "<path:filename>">>,
     methods |-> {"GET", "HEAD", "OPTIONS"}, endpoint |-> "static"]

(* Line 8: methods of a rule registered by route() without methods=.        *)
(* (Faulty variant: the rule accepts every method.)                         *)
route_all_methods == Methods

route_methods == {"GET", "HEAD", "OPTIONS"}

(* Line 8: the rule @app.route('/') registers for index.                    *)
IndexRule == [rule |-> <<"/">>, methods |-> route_methods, endpoint |-> "index"]

(* The route table once lines 6-10 have run.                                *)
Routes == {StaticRule, IndexRule}

----------------------------------------------------------------------------
(* Request parsing: the path is the target up to the first '?'.             *)
(* (Faulty variant: the query string is left in the path.)                  *)
url_path_raw(target) == target

RECURSIVE url_path(_)
url_path(target) ==
    IF target = <<>> \/ Head(target) = "?" THEN <<>>
    ELSE <<Head(target)>> \o url_path(Tail(target))

(* Rule matching: a rule matches a path equal to it; a trailing             *)
(* <path:filename> converter matches one or more remaining segments.       *)
(* (Faulty variant: a rule matches every path it is a prefix of.)           *)
RuleMatches_prefix(r, path) ==
    /\ Len(path) >= 1
    /\ path[1] = r.rule[1]

RuleMatches(r, path) ==
    LET n == Len(r.rule) IN
    IF r.rule[n] = "<path:filename>"
    THEN /\ Len(path) >= n
         /\ SubSeq(path, 1, n - 1) = SubSeq(r.rule, 1, n - 1)
    ELSE path = r.rule

(* The argument a matched converter extracts (the segment after '/static/').*)
filename_of(r, path) == path[Len(r.rule)]

(* The view function of an endpoint (app.view_functions).                   *)
view_function(r, path) ==
    IF r.endpoint = "index" THEN index ELSE send_static_file(filename_of(r, path))

(* Flask.full_dispatch_request and the response sent for it: [status, body, *)
(* allow, view, log]. view names the view function that was called ("" if  *)
(* none was).                                                               *)
full_dispatch_request(req) ==
    LET path == url_path(req.target)
        matched == {r \in app.url_map : RuleMatches(r, path)}
        allowed == {r \in matched : req.method \in r.methods}
    IN  IF matched = {}
        THEN [status |-> 404, body |-> "Not Found", allow |-> {}, view |-> "", log |-> log]
        ELSE IF allowed = {}
        THEN [status |-> 405, body |-> "Method Not Allowed",
              allow |-> UNION {r.methods : r \in matched}, view |-> "", log |-> log]
        ELSE LET r == CHOOSE r \in allowed : TRUE IN
             IF req.method = "OPTIONS"
             THEN [status |-> 200, body |-> "", allow |-> r.methods, view |-> "", log |-> log]
             ELSE LET out == view_function(r, path) IN
                  IF ~out.found
                  THEN [status |-> 404, body |-> "Not Found", allow |-> {},
                        view |-> r.endpoint, log |-> out.log]
                  ELSE [status |-> 200,
                        body |-> IF req.method = "HEAD" THEN "" ELSE out.rv,
                        allow |-> {}, view |-> r.endpoint, log |-> out.log]

----------------------------------------------------------------------------
Init ==
    /\ name \in {"__main__", "main"}
    /\ pc = "line6"
    /\ app = [exists |-> FALSE, url_map |-> {}]
    /\ listening = FALSE
    /\ host = ""
    /\ port = 0
    /\ owner = "none"
    /\ envPort \in Ports
    /\ portFree \in BOOLEAN
    /\ static_folder \in SUBSET {"x"}
    /\ conn = [c \in Conns |-> Idle]
    /\ log = <<>>

(* Line 6: app = Flask(__name__).                                           *)
CreateApp ==
    /\ pc = "line6"
    /\ app' = [exists |-> TRUE, url_map |-> {StaticRule}]
    /\ pc' = "line8"
    /\ UNCHANGED <<name, listening, host, port, owner, envPort, portFree,
                   static_folder, conn, log>>

(* Lines 8-10: @app.route('/') def index(): ...                             *)
route ==
    /\ pc = "line8"
    /\ app' = [app EXCEPT !.url_map = @ \cup {IndexRule}]
    /\ pc' = "line12"
    /\ UNCHANGED <<name, listening, host, port, owner, envPort, portFree,
                   static_folder, conn, log>>

(* Line 12: if __name__ == '__main__'. When the module is imported the body *)
(* ends here and control returns to the importer.                          *)
(* (Faulty variant: the guard is missing and line 13 always runs.)          *)
main_guard_always == TRUE

main_guard == name = "__main__"

Guard ==
    /\ pc = "line12"
    /\ pc' = IF main_guard THEN "line13" ELSE "imported"
    /\ UNCHANGED <<name, app, listening, host, port, owner, envPort, portFree,
                   static_folder, conn, log>>

(* Line 13: the arguments of app.run.                                       *)
(* (Faulty variant of the port: the port the platform injects.)             *)
run_host == "0.0.0.0"

run_port_env == envPort

run_port == 8080

(* Line 13: app.run(host='0.0.0.0', port=8080). The bind succeeds and the   *)
(* call serves from then on, or the bind fails and the process ends.       *)
(* (Faulty variants: a run that serves although the bind failed, and a run  *)
(* that returns without serving.)                                           *)
run_ignoring_bind_failure ==
    /\ pc = "line13"
    /\ listening' = TRUE
    /\ host' = run_host
    /\ port' = run_port
    /\ owner' = "app.run"
    /\ pc' = "serving"
    /\ UNCHANGED <<name, app, envPort, portFree, static_folder, conn, log>>

run_returning ==
    /\ pc = "line13"
    /\ pc' = "exit"
    /\ UNCHANGED <<name, app, listening, host, port, owner, envPort, portFree,
                   static_folder, conn, log>>

run ==
    /\ pc = "line13"
    /\ IF portFree
       THEN /\ listening' = TRUE
            /\ host' = run_host
            /\ port' = run_port
            /\ owner' = "app.run"
            /\ pc' = "serving"
       ELSE /\ pc' = "exit"
            /\ UNCHANGED <<listening, host, port, owner>>
    /\ UNCHANGED <<name, app, envPort, portFree, static_folder, conn, log>>

(* The module was imported by the platform's WSGI server, which binds the   *)
(* port the platform injected and serves the imported app.                 *)
PlatformServe ==
    /\ pc = "imported"
    /\ portFree
    /\ listening' = TRUE
    /\ host' = "0.0.0.0"
    /\ port' = envPort
    /\ owner' = "platform"
    /\ pc' = "serving"
    /\ UNCHANGED <<name, app, envPort, portFree, static_folder, conn, log>>

(* The listener accepts a connection and reads a request from it.           *)
Accept(c, req) ==
    /\ listening
    /\ conn[c].st = "idle"
    /\ conn' = [conn EXCEPT ![c] = [st |-> "accepted", req |-> req, resp |-> NoResp]]
    /\ UNCHANGED <<name, pc, app, listening, host, port, owner, envPort, portFree,
                   static_folder, log>>

(* The request of a connection is dispatched and its response is sent.      *)
Respond(c) ==
    /\ listening
    /\ conn[c].st = "accepted"
    /\ LET out == full_dispatch_request(conn[c].req) IN
        /\ conn' = [conn EXCEPT ![c] =
                      [st |-> "responded", req |-> conn[c].req,
                       resp |-> [status |-> out.status, body |-> out.body,
                                 allow |-> out.allow, view |-> out.view]]]
        /\ log' = out.log
    /\ UNCHANGED <<name, pc, app, listening, host, port, owner, envPort, portFree,
                   static_folder>>

(* The client has its response; the connection ends.                        *)
Close(c) ==
    /\ conn[c].st = "responded"
    /\ conn' = [conn EXCEPT ![c] = Idle]
    /\ UNCHANGED <<name, pc, app, listening, host, port, owner, envPort, portFree,
                   static_folder, log>>

Next ==
    \/ CreateApp
    \/ route
    \/ Guard
    \/ run
    \/ PlatformServe
    \/ \E c \in Conns, req \in Requests : Accept(c, req)
    \/ \E c \in Conns : Respond(c)
    \/ \E c \in Conns : Close(c)

Spec == Init /\ [][Next]_vars

(* The requests of the fair specification: one request for each status a   *)
(* response can have (200 from index, 405, 404).                            *)
LiveRequests ==
    {r \in Requests :
        /\ r.data = ""
        /\ \/ r.method = "GET" /\ r.target \in {<<"/">>, <<"/", "x">>}
           \/ r.method = "POST" /\ r.target = <<"/">>}

FairNext ==
    \/ CreateApp
    \/ route
    \/ Guard
    \/ run
    \/ PlatformServe
    \/ \E c \in Conns, req \in LiveRequests : Accept(c, req)
    \/ \E c \in Conns : Respond(c)
    \/ \E c \in Conns : Close(c)

(* The interpreter runs the module body to its end, and the server answers  *)
(* every request it has accepted (each request is handled on its own        *)
(* thread, and no handler blocks).                                          *)
FairSpec ==
    /\ Init
    /\ [][FairNext]_vars
    /\ WF_vars(CreateApp)
    /\ WF_vars(route)
    /\ WF_vars(Guard)
    /\ WF_vars(run)
    /\ \A c \in Conns : WF_vars(Respond(c))

----------------------------------------------------------------------------
(* Vocabulary of the properties. The root path and the static prefix are    *)
(* read off the request target directly, not through url_path.             *)
PathIsRoot(t) == t \in RootTargets

PathIsStatic(t) == Len(t) >= 4 /\ t[1] = "/" /\ t[2] = "static" /\ t[3] = "/" /\ t[4] # "?"

Responded(c) == conn[c].st = "responded"

AutoMethods == {"GET", "HEAD", "OPTIONS"}

Loaded == pc \in {"line12", "line13", "imported", "serving", "exit"}

(* The response a request gets when it is the only request ever served.     *)
ServedAlone(req) ==
    IF PathIsRoot(req.target)
    THEN CASE req.method = "GET" ->
                [status |-> 200,
                 body |-> "This route should not be reached - check app.yaml static handlers",
                 allow |-> {}, view |-> "index"]
           [] req.method = "HEAD" ->
                [status |-> 200, body |-> "", allow |-> {}, view |-> "index"]
           [] req.method = "OPTIONS" ->
                [status |-> 200, body |-> "", allow |-> AutoMethods, view |-> ""]
           [] OTHER ->
                [status |-> 405, body |-> "Method Not Allowed", allow |-> AutoMethods,
                 view |-> ""]
    ELSE IF ~PathIsStatic(req.target)
    THEN [status |-> 404, body |-> "Not Found", allow |-> {}, view |-> ""]
    ELSE CASE req.method = "OPTIONS" ->
                [status |-> 200, body |-> "", allow |-> AutoMethods, view |-> ""]
           [] req.method \in {"GET", "HEAD"} ->
                IF req.target[4] \in static_folder
                THEN [status |-> 200,
                      body |-> IF req.method = "HEAD" THEN ""
                               ELSE "contents of the static file",
                      allow |-> {}, view |-> "static"]
                ELSE [status |-> 404, body |-> "Not Found", allow |-> {}, view |-> "static"]
           [] OTHER ->
                [status |-> 405, body |-> "Method Not Allowed", allow |-> AutoMethods,
                 view |-> ""]

----------------------------------------------------------------------------
(* C1: every GET request whose path is exactly '/' is answered with status  *)
(* 200 and the fixed diagnostic string as body, whatever was served before. *)
C1_GetRootIs200Fixed ==
    \A c \in Conns :
        (Responded(c) /\ conn[c].req.method = "GET" /\ PathIsRoot(conn[c].req.target))
        => /\ conn[c].resp.status = 200
           /\ conn[c].resp.body =
                "This route should not be reached - check app.yaml static handlers"

C1_Witness ==
    \E c, d \in Conns :
        /\ c # d
        /\ Responded(d)
        /\ Responded(c)
        /\ conn[c].req.method = "GET"
        /\ conn[c].req.target = <<"/">>
        /\ conn[c].resp.status = 200

(* C2 as stated: every request to '/', whatever its method, is answered     *)
(* with status 200 and the fixed diagnostic string.                        *)
C2_AnyMethodRootIs200Fixed ==
    \A c \in Conns :
        (Responded(c) /\ PathIsRoot(conn[c].req.target))
        => /\ conn[c].resp.status = 200
           /\ conn[c].resp.body =
                "This route should not be reached - check app.yaml static handlers"

(* C2 amended: a request to '/' is answered by its method: GET gets 200     *)
(* with the fixed string, HEAD gets 200 with an empty body, OPTIONS gets    *)
(* 200 with an empty body and the allowed methods, every other method gets  *)
(* 405 and index is not called.                                             *)
C2_RootByMethod ==
    \A c \in Conns :
        (Responded(c) /\ PathIsRoot(conn[c].req.target))
        => LET m == conn[c].req.method
               r == conn[c].resp
           IN  /\ m = "GET" =>
                     /\ r.status = 200
                     /\ r.body = "This route should not be reached - check app.yaml static handlers"
               /\ m = "HEAD" => (r.status = 200 /\ r.body = "" /\ r.view = "index")
               /\ m = "OPTIONS" =>
                     (r.status = 200 /\ r.body = "" /\ r.allow = AutoMethods /\ r.view = "")
               /\ m \notin AutoMethods =>
                     (r.status = 405 /\ r.allow = AutoMethods /\ r.view = "")

C2_Witness ==
    \E c \in Conns :
        /\ Responded(c)
        /\ conn[c].req.method = "POST"
        /\ conn[c].req.target = <<"/">>
        /\ conn[c].resp.status = 405

C4_PortFromPlatform ==
    (name = "__main__" /\ listening) => (host = "0.0.0.0" /\ port = envPort)

(* C4 amended: run as the main program, the server listens on 0.0.0.0 on    *)
(* port 8080, whatever port the platform injects.                           *)
C4_PortIs8080 ==
    (name = "__main__" /\ listening) =>
        (owner = "app.run" /\ host = "0.0.0.0" /\ port = 8080)

C4_Witness ==
    /\ name = "__main__"
    /\ listening
    /\ envPort = 9090
    /\ port = 8080

(* C5: answering a request, to '/' or to any other path, changes nothing of *)
(* the server: route table, listening status, bound host and port, static   *)
(* folder and position of the process stay as they are, and no log entry is *)
(* written.                                                                 *)
C5_HandlingHasNoSideEffects ==
    [][ \A c \in Conns :
          (conn[c].st = "accepted" /\ conn'[c].st = "responded")
          => /\ app' = app
             /\ listening' = listening
             /\ host' = host
             /\ port' = port
             /\ owner' = owner
             /\ pc' = pc
             /\ static_folder' = static_folder
             /\ log' = log
             /\ \A d \in Conns \ {c} : conn'[d] = conn[d] ]_vars

C5_Witness ==
    \E c, d \in Conns :
        /\ Responded(c)
        /\ conn[c].resp.view = "index"
        /\ Responded(d)
        /\ conn[d].req.target = <<"/", "x">>
        /\ log = <<>>
        /\ listening

(* C6: the process is 'not started' or 'listening' (listening is FALSE or   *)
(* TRUE). The only change of that state is a successful bind, from not      *)
(* started to listening; when the bind fails the process never listens and  *)
(* never serves; no request is accepted or answered while not started.      *)
C6_Lifecycle ==
    /\ [][ listening' # listening =>
             /\ ~listening
             /\ listening'
             /\ portFree
             /\ pc \in {"line13", "imported"}
             /\ pc' = "serving"
             /\ port' \in Ports ]_vars
    /\ [](~portFree => (~listening /\ \A c \in Conns : conn[c].st = "idle"))
    /\ [](~listening => \A c \in Conns : conn[c].st = "idle")
    /\ [](pc = "exit" => ~listening)

C6_Witness ==
    /\ name = "__main__"
    /\ ~portFree
    /\ pc = "exit"
    /\ ~listening

(* C7: run as the main program with the port free, the process eventually   *)
(* listens; once listening it stays listening whatever requests arrive; and *)
(* every accepted connection eventually gets its response.                  *)
C7_ListensAndAnswers ==
    /\ (name = "__main__" /\ portFree) ~> listening
    /\ [][listening => listening']_vars
    /\ \A c \in Conns : (conn[c].st = "accepted") ~> (conn[c].st = "responded")

C7_Witness ==
    /\ name = "__main__"
    /\ listening
    /\ \A c \in Conns : Responded(c)

(* C8 as stated: with other requests in flight, each request to '/' gets    *)
(* 200 with the fixed string and each request to another path gets 404.     *)
C8_ConcurrentRootIs200 ==
    \A c, d \in Conns :
        (c # d /\ conn[d].st # "idle" /\ Responded(c))
        => IF PathIsRoot(conn[c].req.target)
           THEN /\ conn[c].resp.status = 200
                /\ conn[c].resp.body =
                     "This route should not be reached - check app.yaml static handlers"
           ELSE conn[c].resp.status = 404

(* C8 amended: with other requests in flight, in any interleaving, each     *)
(* request gets exactly the response it gets when served alone.             *)
C8_AsIfServedAlone ==
    \A c \in Conns : Responded(c) => conn[c].resp = ServedAlone(conn[c].req)

C8_Witness ==
    \E c, d \in Conns :
        /\ c # d
        /\ Responded(c)
        /\ conn[c].req.method = "GET"
        /\ PathIsRoot(conn[c].req.target)
        /\ conn[d].st = "accepted"

(* C9: two requests to '/' with the same method get the same status and the *)
(* same body, whatever their headers, query string and body and whatever    *)
(* was served before each of them.                                          *)
C9_RootResponseConstant ==
    \A c, d \in Conns :
        (/\ Responded(c)
         /\ Responded(d)
         /\ PathIsRoot(conn[c].req.target)
         /\ PathIsRoot(conn[d].req.target)
         /\ conn[c].req.method = conn[d].req.method)
        => /\ conn[c].resp.status = conn[d].resp.status
           /\ conn[c].resp.body = conn[d].resp.body

C9_Witness ==
    \E c, d \in Conns :
        /\ Responded(c)
        /\ Responded(d)
        /\ conn[c].req = [method |-> "GET", target |-> <<"/">>, data |-> ""]
        /\ conn[d].req = [method |-> "GET", target |-> <<"/", "?", "q">>, data |-> "d"]
        /\ conn[c].resp.status = 200

(* C10: only a run as the main program calls app.run and binds through it;  *)
(* an import creates app and registers '/' and stops there, so the route    *)
(* table after loading is the same in both modes and the host and port of   *)
(* line 13 are used only by the direct run.                                 *)
C10_BindOnlyAsMain ==
    /\ owner = "app.run" => name = "__main__"
    /\ name # "__main__" => pc \notin {"line13", "exit"}
    /\ (name # "__main__" /\ pc = "imported") => (~listening /\ port = 0 /\ host = "")
    /\ Loaded => (app.exists /\ app.url_map = Routes)

C10_Witness ==
    /\ name = "main"
    /\ pc = "imported"
    /\ app.exists
    /\ \E r \in app.url_map : r.rule = <<"/">> /\ r.endpoint = "index"
    /\ ~listening

====
